---- MODULE Spec2Model ----
(***************************************************************************)
(* A model of the Decoder engine of io-ts (src/src/Tree.ts, the part that  *)
(* is Decoder.ts): primitive decoders, the structural combinators and the  *)
(* map/of/ap/alt instance, run over a small JavaScript heap.               *)
(*                                                                         *)
(* JavaScript values are tagged records.  Objects, arrays and functions    *)
(* live in a heap and are handled through references, so that aliasing     *)
(* and in-place writes (sum's `er.right[tag] = v`) behave as in the code.  *)
(* A decode invocation is an operator from (decoder, input, machine) to    *)
(* (result, machine); the machine carries the heap, the memo cells of the  *)
(* lazy decoders and the observation logs.                                 *)
(***************************************************************************)
EXTENDS Integers, Sequences, FiniteSets, TLC

VARIABLES heap, heap0, memoized, fCalls, pc, dec, input, result, invoked, made

vars == <<heap, heap0, memoized, fCalls, pc, dec, input, result, invoked, made>>

-----------------------------------------------------------------------------
(* JavaScript values                                                       *)

Undefined == [t |-> "undefined"]

Null == [t |-> "null"]

\* a number, held as a count of halves so that 1.5 is representable
Num(h) == [t |-> "number", halves |-> h]

Str(s) == [t |-> "string", s |-> s]

Bool(b) == [t |-> "boolean", b |-> b]

\* a reference to a heap cell (an object, an array or a function)
Ref(r) == [t |-> "ref", r |-> r]

\* an empty slot of a sparse array (`new Array(len)`, `as[i] = x` past the end)
Hole == [t |-> "hole"]

ObjectCell(entries) == [c |-> "Object", entries |-> entries, items |-> <<>>, name |-> ""]

ArrayCell(items) == [c |-> "Array", entries |-> <<>>, items |-> items, name |-> ""]

FunctionCell(name) == [c |-> "Function", entries |-> <<>>, items |-> <<>>, name |-> name]

IsRef(u) == u.t = "ref"

\* typeof u
typeOf(u, h) ==
  CASE u.t = "undefined" -> "undefined"
    [] u.t = "hole" -> "undefined"
    [] u.t = "null" -> "object"
    [] u.t = "ref" -> IF h[u.r].c = "Function" THEN "function" ELSE "object"
    [] OTHER -> u.t

\* Object.prototype.toString.call(u)
toStringTag(u, h) ==
  CASE u.t = "undefined" -> "[object Undefined]"
    [] u.t = "hole" -> "[object Undefined]"
    [] u.t = "null" -> "[object Null]"
    [] u.t = "number" -> "[object Number]"
    [] u.t = "string" -> "[object String]"
    [] u.t = "boolean" -> "[object Boolean]"
    [] u.t = "ref" -> "[object " \o h[u.r].c \o "]"

\* JSON.stringify of a string without characters to escape
JSONstringify(s) == "\"" \o s \o "\""

RECURSIVE join(_, _)
\* Array.prototype.join over strings
join(ss, sep) ==
  IF Len(ss) = 0 THEN ""
  ELSE IF Len(ss) = 1 THEN ss[1]
  ELSE ss[1] \o sep \o join(Tail(ss), sep)

\* the positions of key k among the own properties
KeyPos(entries, k) == {i \in 1..Len(entries) : entries[i][1] = k}

\* hasOwnProperty over a list of own properties
HasKey(entries, k) == KeyPos(entries, k) # {}

\* entries[k], undefined when k is no own property
Lookup(entries, k) ==
  IF HasKey(entries, k) THEN entries[CHOOSE i \in KeyPos(entries, k) : TRUE][2] ELSE Undefined

\* entries[k] = v: an existing key keeps its place, a new key goes last
Assign(entries, k, v) ==
  IF HasKey(entries, k)
  THEN [i \in 1..Len(entries) |-> IF entries[i][1] = k THEN <<k, v>> ELSE entries[i]]
  ELSE Append(entries, <<k, v>>)

\* r[k] for a reference r to an object
GetProp(u, k, h) == Lookup(h[u.r].entries, k)

\* us[i] for a reference us to an array, i counted from 0
GetIndex(u, i, h) ==
  IF i + 1 \in 1..Len(h[u.r].items) THEN
    (IF h[u.r].items[i + 1] = Hole THEN Undefined ELSE h[u.r].items[i + 1])
  ELSE Undefined

Keys(entries) == [i \in 1..Len(entries) |-> entries[i][1]]

-----------------------------------------------------------------------------
(* Either and DecodeError                                                  *)

right(a) == [k |-> "Right", right |-> a]

left(e) == [k |-> "Left", left |-> e]

\* an exception leaving decode: an outcome outside Either
Thrown(what) == [k |-> "Throw", error |-> what]

isLeft(e) == e.k = "Left"

isRight(e) == e.k = "Right"

isThrow(e) == e.k = "Throw"

leaf(expected, actual) == [tag |-> "Leaf", expected |-> expected, actual |-> actual]

indexed(expected, actual, errors) ==
  [tag |-> "Indexed", expected |-> expected, actual |-> actual, errors |-> errors]

labeled(expected, actual, errors) ==
  [tag |-> "Labeled", expected |-> expected, actual |-> actual, errors |-> errors]

and(expected, actual, errors) ==
  [tag |-> "And", expected |-> expected, actual |-> actual, errors |-> errors]

or(expected, actual, errors) ==
  [tag |-> "Or", expected |-> expected, actual |-> actual, errors |-> errors]

isNonEmpty(as) == Len(as) > 0

-----------------------------------------------------------------------------
(* The machine a decode invocation runs on                                 *)
(*   heap      the cells of all objects, arrays and functions              *)
(*   memoized  the memo cell of each lazy decoder                          *)
(*   fCalls    how often each lazy decoder's supplier f has been called    *)
(*   invoked   the decode invocations made, in order, each with the depth  *)
(*             of the call stack it was made at                            *)
(*   depth     the number of decode calls on the stack                     *)
(*   made      the DecodeError nodes constructed, each with the decoder    *)
(*             that constructed it and the input u of that decoder         *)

Unset == [k |-> "unset"]

\* allocate a cell; the new reference is Ref(Len(m.heap) + 1)
Alloc(m, cell) == [m EXCEPT !.heap = Append(@, cell)]

NewRef(m) == Ref(Len(m.heap) + 1)

\* a[k] = v on an object, array or function
Store(m, a, k, v) == [m EXCEPT !.heap[a.r].entries = Assign(@, k, v)]

\* a[i] = v on an array, i counted from 0 and within its length
StoreIndex(m, a, i, v) == [m EXCEPT !.heap[a.r].items[i + 1] = v]

\* entering d.decode(u): depth is the number of decode calls on the stack,
\* res the outcome, filled in when the call is left
Invoke(m, d, u) ==
  [m EXCEPT !.invoked = Append(@, [depth |-> m.depth, d |-> d, u |-> u, res |-> Unset]),
            !.depth = @ + 1]

\* leaving the decode call logged at position idx with outcome x.res
Leave(x, idx) == [x EXCEPT !.m.depth = @ - 1, !.m.invoked[idx].res = x.res]

\* a DecodeError node e constructed by the decoder d decoding u
Made(m, d, u, e) == [m EXCEPT !.made = Append(@, [d |-> d, input |-> u, node |-> e])]

\* the Left of a freshly constructed DecodeError node e
Fail(m, d, u, e) == [res |-> left(e), m |-> Made(m, d, u, e)]

Return(m, res) == [res |-> res, m |-> m]

-----------------------------------------------------------------------------
(* Guards, refinements and functions the decoders are built with           *)

\* G.<guard>.is(u)
is(guard, u, h) ==
  CASE guard.g = "string" -> typeOf(u, h) = "string"
    [] guard.g = "number" -> typeOf(u, h) = "number"
    [] guard.g = "boolean" -> typeOf(u, h) = "boolean"
    [] guard.g = "UnknownArray" -> IsRef(u) /\ h[u.r].c = "Array"
    [] guard.g = "UnknownRecord" -> toStringTag(u, h) = "[object Object]"
    [] guard.g = "literals" -> \E i \in 1..Len(guard.as) : guard.as[i] = u

G(name) == [g |-> name, as |-> <<>>]

showLiteral(a) ==
  CASE a.t = "string" -> JSONstringify(a.s)
    [] a.t = "number" ->
         IF a.halves % 2 = 0 THEN ToString(a.halves \div 2)
         ELSE ToString(a.halves \div 2) \o ".5"
    [] a.t = "boolean" -> IF a.b THEN "true" ELSE "false"
    [] a.t = "null" -> "null"

\* the refinement predicates: Number.isInteger, and two of a caller
Holds(refinement, a, h) ==
  CASE refinement = "Number.isInteger" -> a.t = "number" /\ a.halves % 2 = 0
    [] refinement = "isNonEmptyRecord" -> IsRef(a) /\ Len(h[a.r].entries) > 0
    [] refinement = "isNonEmptyArray" -> IsRef(a) /\ Len(h[a.r].items) > 0

\* f(a) for the functions a caller maps with: the result and the machine
Call(f, a, m) ==
  CASE f = "constNull" -> Return(m, right(Null))
    [] f = "identity" -> Return(m, right(a))
    [] f = "box" -> Return(Alloc(m, ObjectCell(<<<<"value", a>>>>)), right(NewRef(m)))

-----------------------------------------------------------------------------
(* Decoders, as terms                                                      *)

fromRefinement(refinement, expected) ==
  [k |-> "fromRefinement", refinement |-> refinement, expected |-> expected]

literals(as) ==
  fromRefinement([g |-> "literals", as |-> as],
                 join([i \in 1..Len(as) |-> showLiteral(as[i])], " | "))

never == [k |-> "never"]

string == fromRefinement(G("string"), "string")

number == fromRefinement(G("number"), "number")

boolean == fromRefinement(G("boolean"), "boolean")

UnknownArray == fromRefinement(G("UnknownArray"), "Array<unknown>")

UnknownRecord == fromRefinement(G("UnknownRecord"), "Record<string, unknown>")

refinement(decoder, refinement_, expected) ==
  [k |-> "refinement", decoder |-> decoder, refinement |-> refinement_, expected |-> expected]

IntDecoder == refinement(number, "Number.isInteger", "Int")

\* decoders: the declared fields in declaration order, as <<key, decoder>>
type(decoders) == [k |-> "type", decoders |-> decoders]

partial(decoders) == [k |-> "partial", decoders |-> decoders]

record(decoder) == [k |-> "record", decoder |-> decoder]

array(decoder) == [k |-> "array", decoder |-> decoder]

tuple(decoders) == [k |-> "tuple", decoders |-> decoders]

intersection(decoders) == [k |-> "intersection", decoders |-> decoders]

\* id names the closure: its memo cell and its supplier f
lazy(id) == [k |-> "lazy", id |-> id]

\* def: the members in key order, as <<key, decoder>>
sum(tag, def) ==
  IF Len(Keys(def)) = 0 THEN never
  ELSE [k |-> "sum", tag |-> tag, def |-> def,
        expected |-> join([i \in 1..Len(def) |-> JSONstringify(Keys(def)[i])], " | ")]

union(decoders) ==
  IF Len(decoders) = 0 THEN never
  ELSE [k |-> "union", decoders |-> decoders]

literalsOr(as, decoder) == union(<<literals(as), decoder>>)

map(fa, f) == [k |-> "map", fa |-> fa, f |-> f]

of(a) == [k |-> "of", a |-> a]

ap(fab, fa) == [k |-> "ap", fab |-> fab, fa |-> fa]

alt(fx, fy) == [k |-> "alt", fx |-> fx, fy |-> fy]

zero == never

-----------------------------------------------------------------------------
(* The suppliers handed to lazy                                            *)

LazyIds == {"A", "T"}

\* "A" is the self-referential shape of the repository's own lazy test;
\* "T" nests itself through array
f(id) ==
  CASE id = "A" ->
         intersection(<<type(<<<<"a", number>>>>), partial(<<<<"b", lazy("A")>>>>)>>)
    [] id = "T" -> union(<<number, array(lazy("T"))>>)

-----------------------------------------------------------------------------
(* decode                                                                  *)

RECURSIVE decode(_, _, _)

\* E.fromPredicate(refinement, u => DE.leaf(expected, u))
fromRefinementDecode(d, u, m) ==
  IF is(d.refinement, u, m.heap) THEN Return(m, right(u))
  ELSE Fail(m, d, u, leaf(d.expected, u))

neverDecode(d, u, m) == Fail(m, d, u, leaf("never", u))

\* refinement reporting the raw input u in place of the decoded value
refinementDecode_rawInput(d, u, m) ==
  LET e == decode(d.decoder, u, m) IN
  IF isThrow(e.res) \/ isLeft(e.res) THEN e
  ELSE IF Holds(d.refinement, e.res.right, e.m.heap) THEN Return(e.m, right(e.res.right))
  ELSE Fail(e.m, d, u, leaf(d.expected, u))

refinementDecode(d, u, m) ==
  LET e == decode(d.decoder, u, m) IN
  IF isThrow(e.res) \/ isLeft(e.res) THEN e
  ELSE IF Holds(d.refinement, e.res.right, e.m.heap) THEN Return(e.m, right(e.res.right))
  ELSE Fail(e.m, d, u, leaf(d.expected, e.res.right))

RECURSIVE typeFor_shortCircuit(_, _, _, _, _, _)
\* the for loop of type leaving at the first field that fails
typeFor_shortCircuit(decoders, i, r, a, es, m) ==
  IF i > Len(decoders) THEN [thrown |-> Unset, es |-> es, m |-> m]
  ELSE LET k == decoders[i][1]
           e == decode(decoders[i][2], GetProp(r, k, m.heap), m)
       IN IF isThrow(e.res) THEN [thrown |-> e.res, es |-> es, m |-> e.m]
          ELSE IF isLeft(e.res)
               THEN [thrown |-> Unset, es |-> Append(es, <<Str(k), e.res.left>>), m |-> e.m]
               ELSE typeFor_shortCircuit(decoders, i + 1, r, a, es, Store(e.m, a, k, e.res.right))

RECURSIVE typeFor(_, _, _, _, _, _)
\* the for loop of type from field i on; thrown holds an exception escaping it
typeFor(decoders, i, r, a, es, m) ==
  IF i > Len(decoders) THEN [thrown |-> Unset, es |-> es, m |-> m]
  ELSE LET k == decoders[i][1]
           e == decode(decoders[i][2], GetProp(r, k, m.heap), m)
       IN IF isThrow(e.res) THEN [thrown |-> e.res, es |-> es, m |-> e.m]
          ELSE IF isLeft(e.res)
               THEN typeFor(decoders, i + 1, r, a, Append(es, <<Str(k), e.res.left>>), e.m)
               ELSE typeFor(decoders, i + 1, r, a, es, Store(e.m, a, k, e.res.right))

typeDecode(d, u, m) ==
  LET e == decode(UnknownRecord, u, m) IN
  IF isLeft(e.res) THEN e
  ELSE LET a == NewRef(e.m)
           loop == typeFor(d.decoders, 1, e.res.right, a, <<>>, Alloc(e.m, ObjectCell(<<>>)))
       IN IF loop.thrown # Unset THEN Return(loop.m, loop.thrown)
          ELSE IF isNonEmpty(loop.es) THEN Fail(loop.m, d, u, labeled("type", u, loop.es))
          ELSE Return(loop.m, right(a))

RECURSIVE partialFor(_, _, _, _, _, _)
partialFor(decoders, i, r, a, es, m) ==
  IF i > Len(decoders) THEN [thrown |-> Unset, es |-> es, m |-> m]
  ELSE LET k == decoders[i][1] IN
       IF GetProp(r, k, m.heap) # Undefined
       THEN LET e == decode(decoders[i][2], GetProp(r, k, m.heap), m) IN
            IF isThrow(e.res) THEN [thrown |-> e.res, es |-> es, m |-> e.m]
            ELSE IF isLeft(e.res)
                 THEN partialFor(decoders, i + 1, r, a, Append(es, <<Str(k), e.res.left>>), e.m)
                 ELSE partialFor(decoders, i + 1, r, a, es, Store(e.m, a, k, e.res.right))
       ELSE partialFor(decoders, i + 1, r, a, es, m)

partialDecode(d, u, m) ==
  LET e == decode(UnknownRecord, u, m) IN
  IF isLeft(e.res) THEN e
  ELSE LET a == NewRef(e.m)
           loop == partialFor(d.decoders, 1, e.res.right, a, <<>>, Alloc(e.m, ObjectCell(<<>>)))
       IN IF loop.thrown # Unset THEN Return(loop.m, loop.thrown)
          ELSE IF isNonEmpty(loop.es)
               THEN Fail(loop.m, d, u, labeled("partial", u, loop.es))
               ELSE Return(loop.m, right(a))

RECURSIVE recordFor(_, _, _, _, _, _, _)
\* keys: the own keys of r in the order `for (const k in r)` gives them
recordFor(decoder, keys, i, r, a, es, m) ==
  IF i > Len(keys) THEN [thrown |-> Unset, es |-> es, m |-> m]
  ELSE LET k == keys[i]
           e == decode(decoder, GetProp(r, k, m.heap), m)
       IN IF isThrow(e.res) THEN [thrown |-> e.res, es |-> es, m |-> e.m]
          ELSE IF isLeft(e.res)
               THEN recordFor(decoder, keys, i + 1, r, a, Append(es, <<Str(k), e.res.left>>), e.m)
               ELSE recordFor(decoder, keys, i + 1, r, a, es, Store(e.m, a, k, e.res.right))

recordDecode(d, u, m) ==
  LET e == decode(UnknownRecord, u, m) IN
  IF isLeft(e.res) THEN e
  ELSE LET r == e.res.right
           a == NewRef(e.m)
           loop == recordFor(d.decoder, Keys(e.m.heap[r.r].entries), 1, r, a, <<>>,
                             Alloc(e.m, ObjectCell(<<>>)))
       IN IF loop.thrown # Unset THEN Return(loop.m, loop.thrown)
          ELSE IF isNonEmpty(loop.es)
               THEN Fail(loop.m, d, u, labeled("record", u, loop.es))
               ELSE Return(loop.m, right(a))

RECURSIVE arrayFor(_, _, _, _, _, _, _)
\* the for loop of array from index i (counted from 0) on
arrayFor(decoder, len, i, us, a, es, m) ==
  IF ~(i < len) THEN [thrown |-> Unset, es |-> es, m |-> m]
  ELSE LET e == decode(decoder, GetIndex(us, i, m.heap), m) IN
       IF isThrow(e.res) THEN [thrown |-> e.res, es |-> es, m |-> e.m]
       ELSE IF isLeft(e.res)
            THEN arrayFor(decoder, len, i + 1, us, a, Append(es, <<Num(2 * i), e.res.left>>), e.m)
            ELSE arrayFor(decoder, len, i + 1, us, a, es, StoreIndex(e.m, a, i, e.res.right))

\* array without the isNonEmpty test
arrayDecode_noCollapse(d, u, m) ==
  LET e == decode(UnknownArray, u, m) IN
  IF isLeft(e.res) THEN e
  ELSE LET us == e.res.right
           len == Len(e.m.heap[us.r].items)
           a == NewRef(e.m)
           loop == arrayFor(d.decoder, len, 0, us, a, <<>>,
                            Alloc(e.m, ArrayCell([j \in 1..len |-> Hole])))
       IN IF loop.thrown # Unset THEN Return(loop.m, loop.thrown)
          ELSE Fail(loop.m, d, u, indexed("array", u, loop.es))

arrayDecode(d, u, m) ==
  LET e == decode(UnknownArray, u, m) IN
  IF isLeft(e.res) THEN e
  ELSE LET us == e.res.right
           len == Len(e.m.heap[us.r].items)
           a == NewRef(e.m)
           loop == arrayFor(d.decoder, len, 0, us, a, <<>>,
                            Alloc(e.m, ArrayCell([j \in 1..len |-> Hole])))
       IN IF loop.thrown # Unset THEN Return(loop.m, loop.thrown)
          ELSE IF isNonEmpty(loop.es)
               THEN Fail(loop.m, d, u, indexed("array", u, loop.es))
               ELSE Return(loop.m, right(a))

RECURSIVE tupleFor(_, _, _, _, _, _, _)
tupleFor(decoders, len, i, us, a, es, m) ==
  IF ~(i < len) THEN [thrown |-> Unset, es |-> es, m |-> m]
  ELSE LET e == decode(decoders[i + 1], GetIndex(us, i, m.heap), m) IN
       IF isThrow(e.res) THEN [thrown |-> e.res, es |-> es, m |-> e.m]
       ELSE IF isLeft(e.res)
            THEN tupleFor(decoders, len, i + 1, us, a, Append(es, <<Num(2 * i), e.res.left>>), e.m)
            ELSE tupleFor(decoders, len, i + 1, us, a, es, StoreIndex(e.m, a, i, e.res.right))

tupleDecode(d, u, m) ==
  LET e == decode(UnknownArray, u, m) IN
  IF isLeft(e.res) THEN e
  ELSE LET us == e.res.right
           len == Len(d.decoders)
           a == NewRef(e.m)
           loop == tupleFor(d.decoders, len, 0, us, a, <<>>,
                            Alloc(e.m, ArrayCell([j \in 1..len |-> Hole])))
       IN IF loop.thrown # Unset THEN Return(loop.m, loop.thrown)
          ELSE IF isNonEmpty(loop.es)
               THEN Fail(loop.m, d, u, indexed("tuple", u, loop.es))
               ELSE Return(loop.m, right(a))

\* as[i] = x on the local sparse array of intersection, i counted from 0
SetSparse(as, i, x) ==
  [j \in 1..(IF i + 1 > Len(as) THEN i + 1 ELSE Len(as)) |->
     IF j = i + 1 THEN x ELSE IF j <= Len(as) THEN as[j] ELSE Hole]

RECURSIVE intersectionFor(_, _, _, _, _, _)
intersectionFor(decoders, i, u, as, es, m) ==
  IF ~(i < Len(decoders)) THEN [thrown |-> Unset, as |-> as, es |-> es, m |-> m]
  ELSE LET e == decode(decoders[i + 1], u, m) IN
       IF isThrow(e.res) THEN [thrown |-> e.res, as |-> as, es |-> es, m |-> e.m]
       ELSE IF isLeft(e.res)
            THEN intersectionFor(decoders, i + 1, u, as, Append(es, e.res.left), e.m)
            ELSE intersectionFor(decoders, i + 1, u, SetSparse(as, i, e.res.right), es, e.m)

RECURSIVE ObjectAssign(_, _, _)
\* the own properties of Object.assign(target, ...sources); a source that
\* is undefined, null or an empty slot is skipped
ObjectAssign(entries, sources, h) ==
  IF Len(sources) = 0 THEN entries
  ELSE LET src == Head(sources)
           RECURSIVE Copy(_, _)
           Copy(acc, ps) ==
             IF Len(ps) = 0 THEN acc ELSE Copy(Assign(acc, Head(ps)[1], Head(ps)[2]), Tail(ps))
       IN ObjectAssign(IF IsRef(src) THEN Copy(entries, h[src.r].entries) ELSE entries,
                       Tail(sources), h)

\* intersection merging with the earlier member's keys winning
intersectionDecode_firstWins(d, u, m) ==
  LET len == Len(d.decoders) IN
  IF len = 0 THEN Return(m, right(u))
  ELSE LET loop == intersectionFor(d.decoders, 0, u, <<>>, <<>>, m)
           as == loop.as
           some == \E j \in 1..Len(as) :
                     as[j] # Hole /\ toStringTag(as[j], loop.m.heap) # "[object Object]"
           reversed == [j \in 1..Len(as) |-> as[Len(as) + 1 - j]]
           m2 == IF some THEN loop.m
                 ELSE Alloc(loop.m, ObjectCell(ObjectAssign(<<>>, reversed, loop.m.heap)))
           a == IF some THEN (IF Len(as) = 0 THEN Undefined ELSE as[Len(as)])
                ELSE NewRef(loop.m)
       IN IF loop.thrown # Unset THEN Return(loop.m, loop.thrown)
          ELSE IF isNonEmpty(loop.es)
               THEN Fail(m2, d, u, and("intersection", u, loop.es))
               ELSE Return(m2, right(a))

intersectionDecode(d, u, m) ==
  LET len == Len(d.decoders) IN
  IF len = 0 THEN Return(m, right(u))
  ELSE LET loop == intersectionFor(d.decoders, 0, u, <<>>, <<>>, m)
           as == loop.as
           some == \E j \in 1..Len(as) :
                     as[j] # Hole /\ toStringTag(as[j], loop.m.heap) # "[object Object]"
           m2 == IF some THEN loop.m
                 ELSE Alloc(loop.m, ObjectCell(ObjectAssign(<<>>, as, loop.m.heap)))
           a == IF some THEN (IF Len(as) = 0 THEN Undefined ELSE as[Len(as)])
                ELSE NewRef(loop.m)
       IN IF loop.thrown # Unset THEN Return(loop.m, loop.thrown)
          ELSE IF isNonEmpty(loop.es)
               THEN Fail(m2, d, u, and("intersection", u, loop.es))
               ELSE Return(m2, right(a))

\* getMemoized() with the assignment to memoized lost
getMemoized_uncached(id, m) ==
  IF m.memoized[id] = Unset
  THEN [memoized |-> f(id), m |-> [m EXCEPT !.fCalls[id] = @ + 1]]
  ELSE [memoized |-> m.memoized[id], m |-> m]

\* getMemoized(): the decoder and the machine after the call
getMemoized(id, m) ==
  IF m.memoized[id] = Unset
  THEN [memoized |-> f(id),
        m |-> [m EXCEPT !.memoized[id] = f(id), !.fCalls[id] = @ + 1]]
  ELSE [memoized |-> m.memoized[id], m |-> m]

lazyDecode(d, u, m) ==
  LET g == getMemoized(d.id, m) IN decode(g.memoized, u, g.m)

\* er.right[tag] = v: a TypeError on undefined and null, and, the module
\* being strict code, on a number, a string or a boolean
SetTag(er, tag, v, m) ==
  IF IsRef(er.right) THEN Return(Store(m, er.right, tag, v), er)
  ELSE Return(m, Thrown("TypeError"))

sumDecode(d, u, m) ==
  LET e == decode(UnknownRecord, u, m) IN
  IF isLeft(e.res) THEN e
  ELSE LET v == GetProp(e.res.right, d.tag, e.m.heap) IN
       IF typeOf(v, e.m.heap) = "string" /\ HasKey(d.def, v.s)
       THEN LET er == decode(Lookup(d.def, v.s), u, e.m) IN
            IF isThrow(er.res) \/ isLeft(er.res) THEN er
            ELSE SetTag(er.res, d.tag, v, er.m)
       ELSE Fail(Made(e.m, d, u, leaf(d.expected, v)), d, u,
                 labeled("sum", u, <<<<Str(d.tag), leaf(d.expected, v)>>>>))

RECURSIVE unionFor(_, _, _, _, _)
\* the for loop of union from member i (counted from 0) on
unionFor(decoders, i, u, es, m) ==
  IF ~(i < Len(decoders)) THEN [returned |-> Unset, es |-> es, m |-> m]
  ELSE LET e == decode(decoders[i + 1], u, m) IN
       IF isThrow(e.res) \/ isRight(e.res) THEN [returned |-> e.res, es |-> es, m |-> e.m]
       ELSE unionFor(decoders, i + 1, u, Append(es, e.res.left), e.m)

\* union with the first member's error left out of es
unionDecode_dropFirst(d, u, m) ==
  LET e == decode(d.decoders[1], u, m) IN
  IF isThrow(e.res) \/ isRight(e.res) THEN e
  ELSE LET loop == unionFor(d.decoders, 1, u, <<>>, e.m) IN
       IF loop.returned # Unset THEN Return(loop.m, loop.returned)
       ELSE Fail(loop.m, d, u, or("union", u, loop.es))

unionDecode(d, u, m) ==
  LET e == decode(d.decoders[1], u, m) IN
  IF isThrow(e.res) \/ isRight(e.res) THEN e
  ELSE LET loop == unionFor(d.decoders, 1, u, <<e.res.left>>, e.m) IN
       IF loop.returned # Unset THEN Return(loop.m, loop.returned)
       ELSE Fail(loop.m, d, u, or("union", u, loop.es))

\* E.either.map(fa.decode(u), f)
mapDecode(d, u, m) ==
  LET e == decode(d.fa, u, m) IN
  IF isThrow(e.res) \/ isLeft(e.res) THEN e
  ELSE Call(d.f, e.res.right, e.m)

ofDecode(d, u, m) == Return(m, right(d.a))

\* E.either.ap(fab.decode(u), fa.decode(u)): both arguments are evaluated,
\* then isLeft(mab) ? mab : isLeft(ma) ? ma : right(mab.right(ma.right))
apDecode(d, u, m) ==
  LET mab == decode(d.fab, u, m) IN
  IF isThrow(mab.res) THEN mab
  ELSE LET ma == decode(d.fa, u, mab.m) IN
       IF isThrow(ma.res) THEN ma
       ELSE IF isLeft(mab.res) THEN Return(ma.m, mab.res)
       ELSE IF isLeft(ma.res) THEN ma
       ELSE IF typeOf(mab.res.right, ma.m.heap) = "function"
            THEN Call(ma.m.heap[mab.res.right.r].name, ma.res.right, ma.m)
            ELSE Return(ma.m, Thrown("TypeError"))

\* E.either.alt(fx.decode(u), () => fy().decode(u)): isLeft(fx) ? fy() : fx
altDecode(d, u, m) ==
  LET e == decode(d.fx, u, m) IN
  IF isThrow(e.res) THEN e
  ELSE IF isLeft(e.res) THEN decode(d.fy, u, e.m)
  ELSE e

decode(d, u, m) ==
  LET m1 == Invoke(m, d, u) IN
  Leave(CASE d.k = "fromRefinement" -> fromRefinementDecode(d, u, m1)
          [] d.k = "never" -> neverDecode(d, u, m1)
          [] d.k = "refinement" -> refinementDecode(d, u, m1)
          [] d.k = "type" -> typeDecode(d, u, m1)
          [] d.k = "partial" -> partialDecode(d, u, m1)
          [] d.k = "record" -> recordDecode(d, u, m1)
          [] d.k = "array" -> arrayDecode(d, u, m1)
          [] d.k = "tuple" -> tupleDecode(d, u, m1)
          [] d.k = "intersection" -> intersectionDecode(d, u, m1)
          [] d.k = "lazy" -> lazyDecode(d, u, m1)
          [] d.k = "sum" -> sumDecode(d, u, m1)
          [] d.k = "union" -> unionDecode(d, u, m1)
          [] d.k = "map" -> mapDecode(d, u, m1)
          [] d.k = "of" -> ofDecode(d, u, m1)
          [] d.k = "ap" -> apDecode(d, u, m1)
          [] d.k = "alt" -> altDecode(d, u, m1),
        Len(m.invoked) + 1)

-----------------------------------------------------------------------------
(* Bounds                                                                  *)

\* members of a type, partial, tuple, intersection, sum or union
MaxMembers == 2

\* elements of an input array
MaxLen == 2

\* nesting of the inputs handed to the lazy decoders
MaxDepth == 2

\* supplier calls per lazy decoder after which no further decode is started
MaxSupplierCalls == 2

-----------------------------------------------------------------------------
(* Inputs: values as a caller writes them, allocated when decode is called *)

Obj(entries) == [t |-> "object", entries |-> entries]

Arr(items) == [t |-> "array", items |-> items]

Atoms == {Undefined, Null, Num(2), Num(3), Str("A"), Bool(TRUE)}

\* the sequences over S of length at most n
RECURSIVE SeqsUpTo(_, _)
SeqsUpTo(S, n) ==
  IF n = 0 THEN {<<>>}
  ELSE LET shorter == SeqsUpTo(S, n - 1) IN
       shorter \cup {Append(q, x) : q \in {p \in shorter : Len(p) = n - 1}, x \in S}

Absent == [t |-> "absent"]

\* the record with the given fields, those that are Absent left out
Rec(fields) == Obj(SelectSeq(fields, LAMBDA p : p[2] # Absent))

\* the inputs of the field-wise decoders
FieldRecords ==
  {Rec(<<<<"a", a>>, <<"b", b>>>>) :
     a \in {Absent, Num(2), Str("A"), Obj(<<<<"_tag", Str("A")>>>>)},
     b \in {Absent, Undefined, Num(3)}}

\* the inputs of sum
TaggedRecords ==
  {Rec(<<<<"_tag", t>>, <<"a", a>>>>) :
     t \in {Absent, Str("A"), Str("B"), Num(2)}, a \in {Absent, Num(2), Str("A")}}

Arrays == {Arr(items) : items \in SeqsUpTo({Num(2), Num(3), Str("A")}, MaxLen)}

RECURSIVE Chains(_)
\* the inputs of lazy("A"): records nested through b, at most n deep
Chains(n) ==
  IF n = 0 THEN {}
  ELSE {Rec(<<<<"a", a>>, <<"b", b>>>>) :
          a \in {Num(2), Str("A")}, b \in {Absent} \cup Chains(n - 1)}

RECURSIVE Nests(_)
\* the inputs of lazy("T"): arrays nested at most n deep
Nests(n) ==
  IF n = 0 THEN {Num(2), Str("A")}
  ELSE Nests(n - 1) \cup {Arr(<<x>>) : x \in Nests(n - 1)}
                   \cup {Arr(<<Num(2), x>>) : x \in Nests(n - 1)}

RECURSIVE AllocTree(_, _)
\* allocate the input tree t: its value v and the machine after it
AllocTree(t, m) ==
  CASE t.t = "object" ->
         LET RECURSIVE Fields(_, _, _)
             Fields(i, acc, mm) ==
               IF i > Len(t.entries) THEN [v |-> acc, m |-> mm]
               ELSE LET x == AllocTree(t.entries[i][2], mm) IN
                    Fields(i + 1, Append(acc, <<t.entries[i][1], x.v>>), x.m)
             fs == Fields(1, <<>>, m)
         IN [v |-> NewRef(fs.m), m |-> Alloc(fs.m, ObjectCell(fs.v))]
    [] t.t = "array" ->
         LET RECURSIVE Items(_, _, _)
             Items(i, acc, mm) ==
               IF i > Len(t.items) THEN [v |-> acc, m |-> mm]
               ELSE LET x == AllocTree(t.items[i], mm) IN Items(i + 1, Append(acc, x.v), x.m)
             is_ == Items(1, <<>>, m)
         IN [v |-> NewRef(is_.m), m |-> Alloc(is_.m, ArrayCell(is_.v))]
    [] OTHER -> [v |-> t, m |-> m]

-----------------------------------------------------------------------------
(* The decoders a caller builds                                            *)

\* cells owned by decoders: the object handed to `of`, the function under `ap`
Owned == <<ObjectCell(<<<<"a", Num(3)>>>>), FunctionCell("box")>>

\* the members of type, partial, record, array, tuple and union, and the
\* decoders under map, ap and alt
FieldMembers ==
  {string, number, IntDecoder, of(Null), type(<<<<"a", number>>>>),
   sum("_tag", <<<<"A", of(Null)>>>>)}

\* the members of intersection: with and without plain records as results
MergedMembers == {number, UnknownRecord, of(Ref(1)), type(<<<<"a", number>>>>)}

\* the members of sum
SumMembers == {UnknownRecord, of(Null), of(Ref(1)), type(<<<<"a", number>>>>)}

\* the decoders refined
RefinedMembers ==
  {UnknownRecord, UnknownArray, type(<<<<"a", number>>>>), array(number), map(number, "box")}

Key(i) == CASE i = 1 -> "a" [] i = 2 -> "b" [] i = 3 -> "c" [] OTHER -> "d"

TagKey(i) == CASE i = 1 -> "A" [] i = 2 -> "B" [] i = 3 -> "C" [] OTHER -> "D"

\* the field decoders { a: ds[1], b: ds[2], ... }
Fields(ds) == [i \in 1..Len(ds) |-> <<Key(i), ds[i]>>]

\* the sum members { A: ds[1], B: ds[2], ... }
Def(ds) == [i \in 1..Len(ds) |-> <<TagKey(i), ds[i]>>]

-----------------------------------------------------------------------------
(* The state machine: a caller invoking decoders, one call at a time       *)

Machine == [heap |-> heap, memoized |-> memoized, fCalls |-> fCalls,
            invoked |-> <<>>, made |-> <<>>, depth |-> 0]

Init ==
  /\ heap = Owned
  /\ heap0 = Owned
  /\ memoized = [id \in LazyIds |-> Unset]
  /\ fCalls = [id \in LazyIds |-> 0]
  /\ pc = "idle"
  /\ dec = Unset
  /\ input = Undefined
  /\ result = Unset
  /\ invoked = <<>>
  /\ made = <<>>

\* no lazy supplier has run away
Bounded == \A id \in LazyIds : fCalls[id] < MaxSupplierCalls

\* d.decode(u) run to completion, u freshly built from the tree t
Decode(d, t) ==
  \E i \in {AllocTree(t, Machine)} : \E x \in {decode(d, i.v, i.m)} :
    /\ heap0' = i.m.heap
    /\ heap' = x.m.heap
    /\ memoized' = x.m.memoized
    /\ fCalls' = x.m.fCalls
    /\ invoked' = x.m.invoked
    /\ made' = x.m.made
    /\ dec' = d
    /\ input' = i.v
    /\ result' = x.res
    /\ pc' = "done"

\* the caller drops the input and the result: only the cells owned by the
\* decoders stay
Release ==
  /\ pc = "done"
  /\ pc' = "idle"
  /\ heap' = SubSeq(heap, 1, Len(Owned))
  /\ heap0' = heap'
  /\ dec' = Unset
  /\ input' = Undefined
  /\ result' = Unset
  /\ invoked' = <<>>
  /\ made' = <<>>
  /\ UNCHANGED <<memoized, fCalls>>

NotRecords == {Null, Num(2), Arr(<<>>)}

NotArrays == {Null, Obj(<<>>)}

Few == Atoms \cup {Obj(<<>>), Obj(<<<<"_tag", Str("A")>>>>)}

CallPrimitive ==
  /\ pc = "idle" /\ Bounded
  /\ \E d \in {string, number, boolean, UnknownArray, UnknownRecord, never,
               literals(<<Str("A"), Num(2)>>)},
        t \in Few \cup {Arr(<<>>)} : Decode(d, t)

CallRefinement ==
  /\ pc = "idle" /\ Bounded
  /\ \/ \E t \in Few : Decode(IntDecoder, t)
     \/ \E b \in RefinedMembers, p \in {"isNonEmptyRecord", "isNonEmptyArray"},
           t \in FieldRecords \cup Arrays \cup {Null} : Decode(refinement(b, p, "NonEmpty"), t)

CallType ==
  /\ pc = "idle" /\ Bounded
  /\ \E ds \in SeqsUpTo(FieldMembers, MaxMembers), t \in FieldRecords \cup NotRecords :
       Decode(type(Fields(ds)), t)

CallPartial ==
  /\ pc = "idle" /\ Bounded
  /\ \E ds \in SeqsUpTo(FieldMembers, MaxMembers), t \in FieldRecords \cup NotRecords :
       Decode(partial(Fields(ds)), t)

CallRecord ==
  /\ pc = "idle" /\ Bounded
  /\ \E d \in FieldMembers, t \in FieldRecords \cup NotRecords : Decode(record(d), t)

CallArray ==
  /\ pc = "idle" /\ Bounded
  /\ \E d \in FieldMembers, t \in Arrays \cup NotArrays : Decode(array(d), t)

CallTuple ==
  /\ pc = "idle" /\ Bounded
  /\ \E ds \in SeqsUpTo(FieldMembers, MaxMembers), t \in Arrays \cup NotArrays :
       Decode(tuple(ds), t)

CallIntersection ==
  /\ pc = "idle" /\ Bounded
  /\ \E ds \in SeqsUpTo(MergedMembers, MaxMembers), t \in FieldRecords \cup {Num(2), Null} :
       Decode(intersection(ds), t)

CallLazy ==
  /\ pc = "idle" /\ Bounded
  /\ \/ \E t \in Chains(MaxDepth) \cup {Num(2)} : Decode(lazy("A"), t)
     \/ \E t \in Nests(MaxDepth) : Decode(lazy("T"), t)

CallSum ==
  /\ pc = "idle" /\ Bounded
  /\ \E ds \in SeqsUpTo(SumMembers, MaxMembers), t \in TaggedRecords \cup NotRecords :
       Decode(sum("_tag", Def(ds)), t)

CallUnion ==
  /\ pc = "idle" /\ Bounded
  /\ \/ \E ds \in SeqsUpTo(FieldMembers, MaxMembers), t \in Few : Decode(union(ds), t)
     \/ \E t \in Few : Decode(literalsOr(<<Str("A"), Null>>, number), t)

CallMap ==
  /\ pc = "idle" /\ Bounded
  /\ \E fa \in FieldMembers, g \in {"constNull", "identity", "box"}, t \in Few :
       Decode(map(fa, g), t)

CallOf ==
  /\ pc = "idle" /\ Bounded
  /\ \E a \in {Null, Num(2), Ref(1)}, t \in Few : Decode(of(a), t)

CallAp ==
  /\ pc = "idle" /\ Bounded
  /\ \E fab \in {of(Ref(2)), never}, fa \in FieldMembers, t \in Few :
       Decode(ap(fab, fa), t)

CallAlt ==
  /\ pc = "idle" /\ Bounded
  /\ \E fx \in FieldMembers \cup {zero}, fy \in FieldMembers, t \in Few :
       Decode(alt(fx, fy), t)

Next ==
  \/ CallPrimitive
  \/ CallRefinement
  \/ CallType
  \/ CallPartial
  \/ CallRecord
  \/ CallArray
  \/ CallTuple
  \/ CallIntersection
  \/ CallLazy
  \/ CallSum
  \/ CallUnion
  \/ CallMap
  \/ CallOf
  \/ CallAp
  \/ CallAlt
  \/ Release

Spec == Init /\ [][Next]_vars

-----------------------------------------------------------------------------
(* Observations on the call just completed                                 *)

Done == pc = "done"

\* the decode calls made directly by the decoder called, in order
Direct == SelectSeq(invoked, LAMBDA c : c.depth = 1)

\* the positions of a sequence of calls that returned a Left
Failing(cs) == {j \in 1..Len(cs) : isLeft(cs[j].res)}

NoThrow(cs) == \A j \in 1..Len(cs) : ~isThrow(cs[j].res)

RECURSIVE Ascending(_)
\* the members of a finite set of integers as an ascending sequence
Ascending(S) ==
  IF S = {} THEN <<>>
  ELSE LET least == CHOOSE x \in S : \A y \in S : x <= y IN
       <<least>> \o Ascending(S \ {least})

\* the calls of the lazy decoder id within the call just completed
LazyCalls(id) == {j \in 1..Len(invoked) : invoked[j].d = lazy(id)}

-----------------------------------------------------------------------------
(* C1: the supplier f of a lazy decoder is not called before the first     *)
(* decode, is called exactly once by the first decode, whose result is     *)
(* cached, and every later decode, reentrant ones included, reuses the     *)
(* cached decoder: f is called at most once in total.                      *)

C1_CalledAtMostOnce ==
  \A id \in LazyIds :
    /\ fCalls[id] <= 1
    /\ (memoized[id] = Unset) <=> (fCalls[id] = 0)
    /\ memoized[id] # Unset => memoized[id] = f(id)
    /\ (Done /\ LazyCalls(id) # {}) => (fCalls[id] = 1 /\ memoized[id] # Unset)

C1_CacheReused ==
  \A id \in LazyIds :
    /\ memoized[id] # Unset => (memoized'[id] = memoized[id] /\ fCalls'[id] = fCalls[id])
    /\ fCalls'[id] # fCalls[id] => \E j \in 1..Len(invoked') : invoked'[j].d = lazy(id)

C1_LazyMemo == [](C1_CalledAtMostOnce) /\ [][C1_CacheReused]_vars

\* a decode of lazy("A") that reentered the same lazy decoder and succeeded
C1_Witness ==
  /\ Done
  /\ dec = lazy("A")
  /\ Cardinality(LazyCalls("A")) >= 2
  /\ isRight(result)
  /\ fCalls["A"] = 1

-----------------------------------------------------------------------------
(* C2: union tries its members in declared order on the same input; the    *)
(* success of the first member that succeeds is the result and no later    *)
(* member is called; when every member fails the result is                 *)
(* Failure(Or("union", u, errors)) with the n members' errors in declared  *)
(* order; a union of no members fails with Leaf("never", u).               *)

C2_Union ==
  /\ (Done /\ dec.k = "union") =>
       LET ds == dec.decoders
           cs == Direct
           ok == {j \in 1..Len(cs) : isRight(cs[j].res)}
       IN /\ Len(cs) <= Len(ds)
          /\ \A j \in 1..Len(cs) : cs[j].d = ds[j] /\ cs[j].u = input
          /\ ok # {} =>
               /\ ok = {Len(cs)}
               /\ result = cs[Len(cs)].res
          /\ (ok = {} /\ NoThrow(cs)) =>
               /\ Len(cs) = Len(ds)
               /\ result = left(or("union", input, [j \in 1..Len(ds) |-> cs[j].res.left]))
  /\ (Done /\ dec = union(<<>>)) => result = left(leaf("never", input))

\* the first of two members succeeded and the second was not called
C2_Witness ==
  /\ Done
  /\ dec.k = "union"
  /\ Len(dec.decoders) = 2
  /\ Len(Direct) = 1
  /\ isRight(result)

-----------------------------------------------------------------------------
(* C3: type, partial, record, array and tuple decode every member whatever *)
(* the earlier members returned: when the input is a record (an array) and *)
(* k >= 1 of the members decoded fail, the result is one Failure with      *)
(* exactly k children, one per failing key or index, in order.  (Members   *)
(* return a Success or a Failure; only an exception ends the loop early.)  *)

Exhaustive == {"type", "partial", "record", "array", "tuple"}

\* the keys or indices of the members the decoder d decodes on input u
MemberKeys(d, u, h) ==
  CASE d.k = "type" -> [j \in 1..Len(d.decoders) |-> Str(d.decoders[j][1])]
    [] d.k = "partial" ->
         LET present == SelectSeq(d.decoders, LAMBDA p : GetProp(u, p[1], h) # Undefined)
         IN [j \in 1..Len(present) |-> Str(present[j][1])]
    [] d.k = "record" -> [j \in 1..Len(h[u.r].entries) |-> Str(h[u.r].entries[j][1])]
    [] d.k = "array" -> [j \in 1..Len(h[u.r].items) |-> Num(2 * (j - 1))]
    [] d.k = "tuple" -> [j \in 1..Len(d.decoders) |-> Num(2 * (j - 1))]

\* the calls of the members, after the call that checks the input's shape
MemberCalls == Tail(Direct)

ShapeOk == Len(Direct) >= 1 /\ isRight(Direct[1].res)

C3_Exhaustive ==
  (Done /\ dec.k \in Exhaustive /\ ShapeOk) =>
    LET cs == MemberCalls
        keys == MemberKeys(dec, input, heap0)
        bad == Ascending(Failing(cs))
    IN /\ Len(cs) <= Len(keys)
       /\ \A j \in 1..Len(cs) : ~isThrow(cs[j].res) \/ j = Len(cs)
       /\ NoThrow(cs) => Len(cs) = Len(keys)
       /\ (NoThrow(cs) /\ Len(bad) >= 1) =>
            /\ isLeft(result)
            /\ result.left.tag = (IF dec.k \in {"array", "tuple"} THEN "Indexed" ELSE "Labeled")
            /\ result.left.expected = dec.k
            /\ result.left.actual = input
            /\ Len(result.left.errors) = Len(bad)
            /\ result.left.errors = [j \in 1..Len(bad) |-> <<keys[bad[j]], cs[bad[j]].res.left>>]

\* two members failed, and a member after a failing one succeeded
C3_Witness ==
  /\ Done
  /\ dec.k \in Exhaustive
  /\ ShapeOk
  /\ Cardinality(Failing(MemberCalls)) = 2
  /\ Len(MemberCalls) >= 2
  /\ isLeft(result)
  /\ Len(result.left.errors) = 2

-----------------------------------------------------------------------------
(* C4: sum(tag)(def) on a record u with v = u[tag]: when v is a string and *)
(* an own key of def, the result is that of def[v].decode(u), a failure    *)
(* unchanged and a success carrying field tag equal to v; otherwise the    *)
(* result is Failure(Labeled("sum", u, [(tag, Leaf(expected, v))])); an    *)
(* input that is no record gives UnknownRecord's failure, and a sum of no  *)
(* members fails with Leaf("never", u).                                    *)

-----------------------------------------------------------------------------
(* C5: intersection runs every member on the same input u; when a member   *)
(* fails the result is Failure(And("intersection", u, the failing members' *)
(* errors in member order)); when all succeed with plain records the       *)
(* result is their shallow union, a later member's key winning; when all   *)
(* succeed and a value is no plain record the result is the last member's  *)
(* value; with no members the result is Success(u).                        *)

IsPlainRecord(a, h) == IsRef(a) /\ h[a.r].c = "Object"

\* the last of the records as (in the heap h) that has the key k
LastWith(as, k, h) ==
  LET having == {j \in 1..Len(as) : HasKey(h[as[j].r].entries, k)}
  IN as[CHOOSE j \in having : \A i \in having : i <= j]

\* r is the shallow union of the records as, later records winning
IsShallowUnion(r, as, h) ==
  /\ IsPlainRecord(r, h)
  /\ \A k \in {h[r.r].entries[i][1] : i \in 1..Len(h[r.r].entries)} :
       \E j \in 1..Len(as) : HasKey(h[as[j].r].entries, k)
  /\ \A j \in 1..Len(as) : \A i \in 1..Len(h[as[j].r].entries) :
       LET k == h[as[j].r].entries[i][1] IN
       /\ Cardinality(KeyPos(h[r.r].entries, k)) = 1
       /\ GetProp(r, k, h) = GetProp(LastWith(as, k, h), k, h)

C5_Intersection ==
  (Done /\ dec.k = "intersection") =>
    LET ds == dec.decoders
        cs == Direct
        bad == Ascending(Failing(cs))
        as == [j \in 1..Len(cs) |-> cs[j].res.right]
    IN IF Len(ds) = 0 THEN result = right(input) /\ cs = <<>>
       ELSE NoThrow(cs) =>
            /\ Len(cs) = Len(ds)
            /\ \A j \in 1..Len(cs) : cs[j].d = ds[j] /\ cs[j].u = input
            /\ Len(bad) >= 1 =>
                 result = left(and("intersection", input,
                                   [j \in 1..Len(bad) |-> cs[bad[j]].res.left]))
            /\ Len(bad) = 0 =>
                 /\ isRight(result)
                 /\ IF \A j \in 1..Len(as) : IsPlainRecord(as[j], heap)
                    THEN IsShallowUnion(result.right, as, heap)
                    ELSE result.right = as[Len(as)]

\* two members succeeded with plain records that disagree on a shared key
C5_Witness ==
  /\ Done
  /\ dec.k = "intersection"
  /\ Len(Direct) = 2
  /\ isRight(result)
  /\ \A j \in 1..2 : isRight(Direct[j].res) /\ IsPlainRecord(Direct[j].res.right, heap)
  /\ HasKey(heap[Direct[1].res.right.r].entries, "a")
  /\ HasKey(heap[Direct[2].res.right.r].entries, "a")
  /\ GetProp(Direct[1].res.right, "a", heap) # GetProp(Direct[2].res.right, "a", heap)
  /\ GetProp(result.right, "a", heap) = GetProp(Direct[2].res.right, "a", heap)

-----------------------------------------------------------------------------
(* C6: decode returns a Success or a Failure for every decoder built from  *)
(* the engine, with members that do not throw themselves, and every input: *)
(* no exception leaves it.                                                 *)

C6_NeverThrows == (Done /\ NoThrow(Direct)) => (isRight(result) \/ isLeft(result))

-----------------------------------------------------------------------------
(* C7: when every alternative of a union or an alt fails, the Failure      *)
(* returned carries the error of each alternative.                         *)

\* the DecodeErrors directly under the node e
Children(e) ==
  CASE e.tag = "Leaf" -> {}
    [] e.tag \in {"And", "Or"} -> {e.errors[i] : i \in 1..Len(e.errors)}
    [] e.tag \in {"Indexed", "Labeled"} -> {e.errors[i][2] : i \in 1..Len(e.errors)}

\* the node e is, or has directly under it, the error x
Carries(e, x) == e = x \/ x \in Children(e)

C7_AggregateSurfaced ==
  (Done /\ dec.k \in {"union", "alt"} /\ isLeft(result)) =>
    \A j \in 1..Len(Direct) : isLeft(Direct[j].res) => Carries(result.left, Direct[j].res.left)

-----------------------------------------------------------------------------
(* C8: in every DecodeError node, actual is the raw input handed to the    *)
(* decoder that constructed the node, also in the Leaf of a refinement     *)
(* whose predicate rejects, whatever the base decoder.                     *)

C8_ActualIsInput == Done => \A i \in 1..Len(made) : made[i].node.actual = made[i].input

\* C8 as amended: actual is the raw input of the constructing decoder,
\* except in the Leaf of a rejecting refinement, where it is the success
\* value of the base decoder (the raw input itself for Int, whose base
\* number passes its input through), and in the Leaf sum puts under the
\* discriminant key, where it is the input's value of that field.
C8_ActualIsExamined ==
  Done =>
    \A i \in 1..Len(made) :
      LET d == made[i].d
          u == made[i].input
          node == made[i].node
      IN CASE d.k = "refinement" ->
                /\ node.tag = "Leaf"
                /\ \E j \in 1..Len(invoked) :
                     /\ invoked[j].d = d.decoder
                     /\ invoked[j].u = u
                     /\ isRight(invoked[j].res)
                     /\ node.actual = invoked[j].res.right
                /\ d = IntDecoder => node.actual = u
           [] d.k = "sum" /\ node.tag = "Leaf" -> node.actual = GetProp(u, d.tag, heap0)
           [] OTHER -> node.actual = u

\* a refinement over type rejected: actual is the record type built, which
\* is not the input
C8_Witness ==
  /\ Done
  /\ dec.k = "refinement"
  /\ dec.decoder.k = "type"
  /\ isLeft(result)
  /\ Len(made) = 1
  /\ made[1].d = dec
  /\ result.left.actual = Direct[1].res.right
  /\ result.left.actual # input

-----------------------------------------------------------------------------
(* C9: a decode call changes nothing that existed before it: not its       *)
(* input, and no value an earlier call returned or a decoder holds; the    *)
(* memo cell of lazy is the only state it writes.                          *)

C9_NoSharedMutation == Done => \A r \in 1..Len(heap0) : heap[r] = heap0[r]

-----------------------------------------------------------------------------
(* C10: no Indexed, Labeled, And or Or node is constructed with an empty   *)
(* errors list: type, partial, record, array, tuple, intersection and      *)
(* union return Success when no member fails, also with no fields, an      *)
(* empty array, an empty record or only undefined fields.                  *)

Composite == {"Indexed", "Labeled", "And", "Or"}

C10_NonEmptyErrors ==
  Done =>
    /\ \A i \in 1..Len(made) : made[i].node.tag \in Composite => Len(made[i].node.errors) >= 1
    /\ isLeft(result) /\ result.left.tag \in Composite => Len(result.left.errors) >= 1
    /\ (/\ dec.k \in Exhaustive \cup {"intersection", "union"}
        /\ dec.k \in Exhaustive => ShapeOk
        /\ \A j \in 1..Len(Direct) : isRight(Direct[j].res)) => isRight(result)

\* a decoder with nothing to decode returned Success
C10_Witness ==
  /\ Done
  /\ dec.k \in {"type", "partial", "record", "array", "tuple"}
  /\ ShapeOk
  /\ MemberCalls = <<>>
  /\ isRight(result)

====
